---- MODULE Spec2Model ----
(***************************************************************************)
(* A model of express-chocolatey-server (src/chocolatey-server.js): the    *)
(* normalization of the package metadata list, the two filter regular      *)
(* expressions, the feed renderer and the five GET routes behind the       *)
(* error-catching wrapper `get`.                                           *)
(*                                                                         *)
(* Strings are sequences of atoms.  An atom is one character ("a", "'",    *)
(* " ") or an indivisible piece of literal text ("substringof(",           *)
(* "{EXPRESS_URL_ROOT}").  Concatenation is \o, the empty string is <<>>.  *)
(* A JavaScript object is a function from field names to values; a field   *)
(* that is undefined is outside its DOMAIN.                                *)
(***************************************************************************)
EXTENDS Naturals, Sequences, FiniteSets, TLC

\* ------------------------------------------------------------------ bounds
\* longest package list handed to configureRoutes
MaxPkgs == 2
\* longest operand (id, substring, name) a request carries
MaxLen == 1
\* requests that may be in flight at the same time
MaxInFlight == 2
\* longest dependency list of a record (normalization specification)
MaxDeps == 2

\* ------------------------------------------------------- string primitives
\* String.prototype.includes
Includes(hay, needle) ==
    \E i \in 0..Len(hay) :
        /\ i + Len(needle) <= Len(hay)
        /\ SubSeq(hay, i + 1, i + Len(needle)) = needle

\* String.prototype.startsWith / endsWith, for a one-atom argument
StartsWith(s, c) == Len(s) > 0 /\ s[1] = c

EndsWith(s, c) == Len(s) > 0 /\ s[Len(s)] = c

\* what "." of a regular expression (without the s flag) matches
Dot(c) == c \notin {"\n", "\r"}

\* every atom of s[from..to] is matched by "."
AllDot(s, from, to) == \A k \in from..to : Dot(s[k])

\* the /i flag, on the atoms that have letters in the pattern
FoldCase(c) ==
    IF c \in {"tolower(Id) eq ", "TOLOWER(ID) EQ ", "ToLower(id) Eq "}
    THEN "tolower(id) eq "
    ELSE c

\* Array.prototype.join of a sequence of strings
RECURSIVE Join(_, _)
Join(strs, sep) ==
    IF Len(strs) = 0 THEN <<>>
    ELSE IF Len(strs) = 1 THEN strs[1]
    ELSE strs[1] \o sep \o Join(Tail(strs), sep)

\* replace(/<atom>/, by): the first occurrence only
ReplaceFirst(s, atom, by) ==
    LET hits == { i \in 1..Len(s) : s[i] = atom }
    IN  IF hits = {} THEN s
        ELSE LET i == CHOOSE i \in hits : \A k \in hits : i <= k
             IN  SubSeq(s, 1, i - 1) \o by \o SubSeq(s, i + 1, Len(s))

\* replace(/<atom>/g, by): every occurrence
RECURSIVE ReplaceAll(_, _, _)
ReplaceAll(s, atom, by) ==
    IF Len(s) = 0 THEN <<>>
    ELSE (IF s[1] = atom THEN by ELSE <<s[1]>>)
             \o ReplaceAll(Tail(s), atom, by)

\* entry[key], undefined read as ''
Get(entry, key) == IF key \in DOMAIN entry THEN entry[key] ELSE <<>>

\* JavaScript truthiness of entry[key] for string, array and Buffer fields:
\* undefined and '' are falsy, an array or a Buffer is truthy
Truthy(entry, key) ==
    /\ key \in DOMAIN entry
    /\ (key \in {"dependencies", "nupkgData"} \/ entry[key] # <<>>)

\* ------------------------------------------------------------- constants
CONTENT_TYPE == "Content-Type"

ATOM_MIME_TYPE == "application/atom+xml; charset=utf-8"

BINARY_MIME_TYPE == "application/octet-stream"

EXPRESS_URL_ROOT == "{EXPRESS_URL_ROOT}"

\* ------------------------------------------------- preprocessPackageMetadata
\* a slip of the line below: no fallback for a missing version and no
\* trailing colon
FlatDepBare(dep) ==
    dep.id \o <<":">> \o (IF "version" \in DOMAIN dep THEN dep.version
                          ELSE <<"undefined">>)

\* dep.id + ':' + (dep.version || '') + ':'
FlatDep(dep) == dep.id \o <<":">> \o Get(dep, "version") \o <<":">>

FlatDeps(entry) ==
    IF Truthy(entry, "dependencies")
    THEN Join([i \in 1..Len(entry.dependencies) |->
                   FlatDep(entry.dependencies[i])], <<"|">>)
    ELSE <<>>

FlatTags(entry) ==
    IF Truthy(entry, "tags")
    THEN <<" ">> \o entry.tags \o <<" ">>
    ELSE <<>>

\* one iteration of the loop body: the entry after it
preprocessEntry(pfx, entry) ==
    LET derived == ("_flat_deps" :> FlatDeps(entry))
                       @@ ("_flat_tags" :> FlatTags(entry))
        localUrl == <<EXPRESS_URL_ROOT>> \o pfx \o <<"download/">> \o entry.id
    IN  IF Truthy(entry, "nupkgData")
        THEN ("url" :> localUrl) @@ derived @@ entry
        ELSE derived @@ entry

preprocessPackageMetadata(pfx, list) ==
    [i \in 1..Len(list) |-> preprocessEntry(pfx, list[i])]

\* route prefixes start and end with a slash
normalizePrefix(p) ==
    LET p1 == IF StartsWith(p, "/") THEN p ELSE <<"/">> \o p
    IN  IF EndsWith(p1, "/") THEN p1 ELSE p1 \o <<"/">>

\* ---------------------------------------------------------------- templates
\* static/entry-template.atom, line by line; every line ends with "\n"
entryTemplateFile ==
    << <<"  <entry>">>,
       <<"    <id>https://choco-js-fake-data/package/", "{", "name", "}", "/",
         "{", "version", "}", "</id>">>,
       <<"    <title type=\"text\">", "{", "id", "}", "</title>">>,
       <<"    <summary type=\"text\">", "{", "summary", "}", "</summary>">>,
       <<"    <author>">>,
       <<"      <name>", "{", "authors", "}", "</name>">>,
       <<"    </author>">>,
       <<"    <content type=\"application/zip\" src=\"", "{", "url", "}",
         "\" />">>,
       <<"    <summary type=\"text\">", "{", "summary", "}", "</summary>">>,
       <<"    <m:properties>">>,
       <<"      <d:Version>", "{", "version", "}", "</d:Version>">>,
       <<"      <d:Title>", "{", "title", "}", "</d:Title>">>,
       <<"      <d:Description>", "{", "description", "}", "</d:Description>">>,
       <<"      <d:Tags xml:space=\"preserve\">", "{", "_flat_tags", "}",
         "</d:Tags>">>,
       <<"      <d:Copyright>", "{", "copyright", "}", "</d:Copyright>">>,
       <<"      <d:Dependencies>", "{", "_flat_deps", "}", "</d:Dependencies>">>,
       <<"      <d:IconUrl>", "{", "iconUrl", "}", "</d:IconUrl>">>,
       <<"      <d:IsLatestVersion m:type=\"Edm.Boolean\">true</d:IsLatestVersion>">>,
       <<"      <d:IsAbsoluteLatestVersion m:type=\"Edm.Boolean\">true</d:IsAbsoluteLatestVersion>">>,
       <<"      <d:IsPrerelease m:type=\"Edm.Boolean\">false</d:IsPrerelease>">>,
       <<"      <d:LicenseUrl>", "{", "licenseUrl", "}", "</d:LicenseUrl>">>,
       <<"      <d:RequireLicenseAcceptance m:type=\"Edm.Boolean\">", "{",
         "requireLicenseAcceptance", "}", "</d:RequireLicenseAcceptance>">>,
       <<"      <d:ProjectUrl>", "{", "projectUrl", "}", "</d:ProjectUrl>">>,
       <<"      <d:ReleaseNotes>", "{", "releaseNotes", "}", "</d:ReleaseNotes>">>,
       <<"      <d:ProjectSourceUrl>", "{", "projectSourceUrl", "}",
         "</d:ProjectSourceUrl>">>,
       <<"      <d:PackageSourceUrl>", "{", "packageSourceUrl", "}",
         "</d:PackageSourceUrl>">>,
       <<"      <d:DocsUrl>", "{", "docsUrl", "}", "</d:DocsUrl>">>,
       <<"      <d:MailingListUrl>", "{", "mailingListUrl", "}",
         "</d:MailingListUrl>">>,
       <<"      <d:BugTrackerUrl>", "{", "bugTrackerUrl", "}",
         "</d:BugTrackerUrl>">>,
       <<"    </m:properties>">>,
       <<"  </entry>">>,
       << >> >>

\* static/root.atom, static/metadata.atom, static/error.atom: fixed documents
rootAtomFile == <<"<service/>\n">>

metadataAtomFile == <<"<edmx:Edmx/>\n">>

errorAtomFile == <<"<m:error/>\n">>

\* static/packages-template.atom: the feed wrapper around the entries
packagesTemplateFile == <<"<feed>\n", "{entries}\n", "</feed>\n">>

\* what the five fs.readFile calls of configureRoutes return
LoadedTemplates ==
    [rootAtom         |-> rootAtomFile,
     metadataAtom     |-> metadataAtomFile,
     errorAtom        |-> errorAtomFile,
     entryTemplate    |-> entryTemplateFile,
     packagesTemplate |-> packagesTemplateFile]

NoTemplates ==
    [rootAtom         |-> << >>,
     metadataAtom     |-> << >>,
     errorAtom        |-> << >>,
     entryTemplate    |-> << >>,
     packagesTemplate |-> << >>]

\* ------------------------------------------------------- filter interpreter
\* the result of String.prototype.match reduced to `match ? match[1] : null`
Null == [ok |-> FALSE, value |-> << >>]

Captured(v) == [ok |-> TRUE, value |-> v]

\* `if (x)` for such a result: null and '' are falsy
Found(m) == m.ok /\ m.value # << >>

\* the pattern below with a lazy group, /tolower\(Id\) eq '(.*?)'/i
filterForOnePackageLazy(filter) ==
    LET starts == { i \in 1..Len(filter) :
                      /\ FoldCase(filter[i]) = "tolower(id) eq "
                      /\ i + 1 <= Len(filter)
                      /\ filter[i + 1] = "'"
                      /\ \E j \in (i + 2)..Len(filter) :
                            filter[j] = "'" /\ AllDot(filter, i + 2, j - 1) }
    IN  IF starts = {} THEN Null
        ELSE LET i == CHOOSE i \in starts : \A k \in starts : i <= k
                 ends == { j \in (i + 2)..Len(filter) :
                             filter[j] = "'" /\ AllDot(filter, i + 2, j - 1) }
                 j == CHOOSE j \in ends : \A k \in ends : j <= k
             IN  Captured(SubSeq(filter, i + 2, j - 1))

\* /tolower\(Id\) eq '(.*)'/i -- the leftmost position of the literal text
\* followed by a quote, then the greedy group up to the last quote that "."
\* can reach
filterForOnePackage(filter) ==
    LET starts == { i \in 1..Len(filter) :
                      /\ FoldCase(filter[i]) = "tolower(id) eq "
                      /\ i + 1 <= Len(filter)
                      /\ filter[i + 1] = "'"
                      /\ \E j \in (i + 2)..Len(filter) :
                            filter[j] = "'" /\ AllDot(filter, i + 2, j - 1) }
    IN  IF starts = {} THEN Null
        ELSE LET i == CHOOSE i \in starts : \A k \in starts : i <= k
                 ends == { j \in (i + 2)..Len(filter) :
                             filter[j] = "'" /\ AllDot(filter, i + 2, j - 1) }
                 j == CHOOSE j \in ends : \A k \in ends : j >= k
             IN  Captured(SubSeq(filter, i + 2, j - 1))

\* the positions j where the lazy group of the pattern below may end when it
\* started after the quote at i + 1
ManyEnds(filter, i) ==
    { j \in (i + 2)..Len(filter) :
        /\ filter[j] = "'"
        /\ AllDot(filter, i + 2, j - 1)
        /\ j + 1 <= Len(filter)
        /\ filter[j + 1] = ",tolower("
        /\ \E k \in (j + 2)..(Len(filter) - 1) :
              /\ filter[k] = ")"
              /\ filter[k + 1] = ")"
              /\ AllDot(filter, j + 2, k - 1) }

\* /substringof\('(.*?)',tolower\(.*?\)\)/ -- case-sensitive, lazy groups
filterForManyPackages(filter) ==
    LET starts == { i \in 1..Len(filter) :
                      /\ filter[i] = "substringof("
                      /\ i + 1 <= Len(filter)
                      /\ filter[i + 1] = "'"
                      /\ ManyEnds(filter, i) # {} }
    IN  IF starts = {} THEN Null
        ELSE LET i == CHOOSE i \in starts : \A k \in starts : i <= k
                 j == CHOOSE j \in ManyEnds(filter, i) :
                          \A k \in ManyEnds(filter, i) : j <= k
             IN  Captured(SubSeq(filter, i + 2, j - 1))

\* the id compared as it was sent, its quotes kept
stripQuotesKept(id) == id

\* id.replace(/'(.*)'/, '$1'): the first quote that has a later quote on its
\* line and the last such quote are removed
stripQuotes(id) ==
    LET starts == { i \in 1..Len(id) :
                      /\ id[i] = "'"
                      /\ \E j \in (i + 1)..Len(id) :
                            id[j] = "'" /\ AllDot(id, i + 1, j - 1) }
    IN  IF starts = {} THEN id
        ELSE LET i == CHOOSE i \in starts : \A k \in starts : i <= k
                 ends == { j \in (i + 1)..Len(id) :
                             id[j] = "'" /\ AllDot(id, i + 1, j - 1) }
                 j == CHOOSE j \in ends : \A k \in ends : j >= k
             IN  SubSeq(id, 1, i - 1) \o SubSeq(id, i + 1, j - 1)
                     \o SubSeq(id, j + 1, Len(id))

\* ------------------------------------------------------------ feed renderer
\* line.replace(/{(.*)}/g, (match, key) => entry[key] || ''): on one line the
\* greedy group runs from the first "{" to the last "}"
renderLine(line, entry) ==
    LET opens  == { i \in 1..Len(line) : line[i] = "{" }
        closes == { j \in 1..Len(line) : line[j] = "}" }
    IN  IF opens = {} THEN line
        ELSE LET i == CHOOSE i \in opens : \A k \in opens : i <= k
                 after == { j \in closes : j > i }
             IN  IF after = {} THEN line
                 ELSE LET j == CHOOSE j \in after : \A k \in after : j >= k
                          key == SubSeq(line, i + 1, j - 1)
                          value == IF Len(key) = 1 THEN Get(entry, key[1])
                                   ELSE << >>
                      IN  SubSeq(line, 1, i - 1) \o value
                              \o SubSeq(line, j + 1, Len(line))

\* the concatenation of strs[lo..hi]
RECURSIVE Concat(_, _, _)
Concat(strs, lo, hi) ==
    IF lo > hi THEN << >>
    ELSE IF lo = hi THEN strs[lo]
    ELSE LET mid == (lo + hi) \div 2
         IN  Concat(strs, lo, mid) \o Concat(strs, mid + 1, hi)

\* entryTemplate.replace(...) over the whole template
renderEntry(lines, entry) ==
    Concat([i \in 1..Len(lines) |-> renderLine(lines[i], entry) \o <<"\n">>],
           1, Len(lines))

\* req.protocol + '://' + req.get('host')
urlRoot(req) == <<req.protocol, "://", req.host>>

\* the renderer with the entries joined last to first
formatPackagesReversed(matchedPackages, req, tpl) ==
    LET n == Len(matchedPackages)
        entries == [i \in 1..n |->
                       renderEntry(tpl.entryTemplate, matchedPackages[n + 1 - i])]
    IN  ReplaceFirst(
            ReplaceAll(tpl.packagesTemplate, "{entries}\n", Join(entries, << >>)),
            EXPRESS_URL_ROOT, urlRoot(req))

formatPackages(matchedPackages, req, tpl) ==
    LET entries == [i \in 1..Len(matchedPackages) |->
                       renderEntry(tpl.entryTemplate, matchedPackages[i])]
    IN  ReplaceFirst(
            ReplaceAll(tpl.packagesTemplate, "{entries}\n", Join(entries, << >>)),
            EXPRESS_URL_ROOT, urlRoot(req))

\* ----------------------------------------------------------- route handlers
\* a response as the handler leaves it: res.status (200 unless set), the
\* Content-Type the handler set ("" when it set none) and the body sent
Response(status, type, body) == [status |-> status, type |-> type, body |-> body]

\* what running a handler does: the responses it sent, and whether it threw
Returned(responses) == [threw |-> FALSE, sent |-> responses]

Threw == [threw |-> TRUE, sent |-> << >>]

rootHandler(req, list, tpl) ==
    Returned(<<Response(200, ATOM_MIME_TYPE, tpl.rootAtom)>>)

metadataHandler(req, list, tpl) ==
    Returned(<<Response(200, ATOM_MIME_TYPE, tpl.metadataAtom)>>)

\* the predicate of the search branch, for one entry
searchMatches(entry, substring) ==
    \/ Includes(entry.id, substring)
    \/ Includes(entry.summary, substring)
    \/ Includes(entry["_flat_tags"], <<" ">> \o substring \o <<" ">>)

\* evaluating that predicate reads entry.summary.includes when the id does
\* not match: a TypeError when summary is undefined
searchThrows(entry, substring) ==
    /\ ~Includes(entry.id, substring)
    /\ "summary" \notin DOMAIN entry

packagesHandler(req, list, tpl) ==
    IF "$filter" \notin DOMAIN req.query
    THEN Threw   \* filter.match on undefined
    ELSE LET filter    == req.query["$filter"]
             name      == filterForOnePackage(filter)
             substring == filterForManyPackages(filter)
         IN  IF Found(name)
             THEN Returned(<<Response(200, ATOM_MIME_TYPE,
                     formatPackages(
                         SelectSeq(list, LAMBDA e : e.id = name.value),
                         req, tpl))>>)
             ELSE IF Found(substring)
             THEN IF \E i \in 1..Len(list) : searchThrows(list[i], substring.value)
                  THEN Threw
                  ELSE Returned(<<Response(200, ATOM_MIME_TYPE,
                          formatPackages(
                              SelectSeq(list,
                                  LAMBDA e : searchMatches(e, substring.value)),
                              req, tpl))>>)
             ELSE Returned(<<Response(400, ATOM_MIME_TYPE, tpl.errorAtom)>>)

findPackagesByIdHandler(req, list, tpl) ==
    LET id == stripQuotes(Get(req.query, "id"))
    IN  Returned(<<Response(200, ATOM_MIME_TYPE,
            formatPackages(SelectSeq(list, LAMBDA e : e.id = id), req, tpl))>>)

\* the download handler taking the last record with the id, not the first
downloadHandlerLast(req, list, tpl) ==
    LET name == req.params.name
        hits == { i \in 1..Len(list) : list[i].id = name }
    IN  IF hits # {}
        THEN LET i == CHOOSE i \in hits : \A k \in hits : i >= k
             IN  Returned(<<Response(200, BINARY_MIME_TYPE,
                                     Get(list[i], "nupkgData"))>>)
        ELSE Returned(<<Response(404, "", <<"Not found">>)>>)

\* res.send(undefined) sends an empty body
downloadHandler(req, list, tpl) ==
    LET name == req.params.name
        hits == { i \in 1..Len(list) : list[i].id = name }
    IN  IF hits # {}
        THEN LET i == CHOOSE i \in hits : \A k \in hits : i <= k
             IN  Returned(<<Response(200, BINARY_MIME_TYPE,
                                     Get(list[i], "nupkgData"))>>)
        ELSE Returned(<<Response(404, "", <<"Not found">>)>>)

\* ------------------------------------------------------------------ inputs
Alphabet == {"a", "'"}

RECURSIVE StringsUpTo(_)
StringsUpTo(n) ==
    IF n = 0 THEN { << >> }
    ELSE StringsUpTo(n - 1)
             \cup { Append(w, c) : w \in StringsUpTo(n - 1), c \in Alphabet }

Operands == StringsUpTo(MaxLen)

\* the ids of the packages below that no operand may reach
KnownIds == { <<"a", "a">>, <<"b">> }

\* what a request may name: an operand or the id of a package
Names == Operands \cup KnownIds

\* the filter the client sends for install and upgrade
ExactFilter(id) ==
    <<"(", "tolower(Id) eq ", "'">> \o id \o <<"'", ")", " and IsLatestVersion">>

ExactFilterUpper(id) ==
    <<"(", "TOLOWER(ID) EQ ", "'">> \o id \o <<"'", ")", " and IsLatestVersion">>

\* the filter the client sends for search
SearchFilter(s) ==
    <<"(", "(", "(", "Id ne null", ")", " and ", "substringof(", "'">> \o s
        \o <<"'", ",tolower(", "Id", ")", ")", ")", " or ", "(", "(",
             "Description ne null", ")", " and ", "substringof(", "'">> \o s
        \o <<"'", ",tolower(", "Description", ")", ")", ")", ")", " or ", "(",
             "(", "Tags ne null", ")", " and ", "substringof(", "'", " ">> \o s
        \o <<" ", "'", ",tolower(", "Tags", ")", ")", ")">>

OtherFilters == { << >>, <<"Id", " eq ", "'", "a", "'">>,
                  <<"substringof(", "'", "a", "'", ")">> }

Filters ==
    { ExactFilter(o) : o \in Names }
        \cup { ExactFilterUpper(<<"a">>) }
        \cup { SearchFilter(o) : o \in Names } \cup OtherFilters

UrlRoots == { [protocol |-> "http", host |-> "localhost:8000"] }

Request(route, query, params, root) ==
    [route |-> route, query |-> query, params |-> params,
     protocol |-> root.protocol, host |-> root.host]

NoArgs == << >>

AnyRoot == CHOOSE r \in UrlRoots : r.protocol = "http"

RootRequests == { Request("root", NoArgs, NoArgs, AnyRoot) }

MetadataRequests == { Request("metadata", NoArgs, NoArgs, AnyRoot) }

PackagesRequests ==
    { Request("Packages", "$filter" :> f, NoArgs, r) : f \in Filters, r \in UrlRoots }
        \cup { Request("Packages", NoArgs, NoArgs, AnyRoot) }

FindPackagesByIdRequests ==
    { Request("FindPackagesById", "id" :> o, NoArgs, r) :
          o \in Names \cup { <<"'">> \o n \o <<"'">> : n \in Names },
          r \in UrlRoots }
        \cup { Request("FindPackagesById", NoArgs, NoArgs, AnyRoot) }

DownloadRequests ==
    { Request("download", NoArgs, "name" :> o, AnyRoot) :
          o \in Names \ { << >> } }

\* the raw records readPackageMetadata or the application hands over: a local
\* package with every field, a local one without summary and tags, one
\* hosted elsewhere (url, no nupkgData), and a second version of the first
PackageUniverse ==
    { [id |-> <<"a">>, version |-> <<"1">>, summary |-> <<"b">>,
       tags |-> <<"'", " ", "b">>,
       dependencies |-> << [id |-> <<"a", "a">>, version |-> <<"2">>],
                           [id |-> <<"b">>] >>,
       nupkgData |-> <<"PK", "1">>],
      [id |-> <<"a", "a">>, version |-> <<"2">>, nupkgData |-> <<"PK", "2">>],
      [id |-> <<"b">>, version |-> <<"1">>, summary |-> <<"'">>,
       tags |-> <<"a", "a">>, url |-> <<"https://cdn.example/b.nupkg">>],
      [id |-> <<"a">>, version |-> <<"2">>, summary |-> <<"a", "'">>,
       nupkgData |-> <<"PK", "4">>] }

RECURSIVE ListsUpTo(_, _)
ListsUpTo(S, n) ==
    IF n = 0 THEN { << >> }
    ELSE ListsUpTo(S, n - 1)
             \cup { Append(l, x) : l \in ListsUpTo(S, n - 1), x \in S }

PrefixInputs == { <<"choco">>, <<"/", "choco">>, <<"choco", "/">>, <<"/", "choco", "/">> }

\* ------------------------------------------------------------------- state
VARIABLES
    phase,                \* "loaded": configureRoutes not yet run; "serving"
    packageMetadataList,  \* the array handed to configureRoutes
    prefix,               \* the normalized route prefix
    templates,            \* the five template strings
    alive,                \* the process is running
    pc,                   \* per request slot: "idle", "arrived" (its callback
                          \* is queued), "running" (its callback executes),
                          \* "awaiting" (its callback is suspended at await)
    cur                   \* the callback started last: its request, and once
                          \* it has run, whether the handler threw and what
                          \* was sent

vars == <<phase, packageMetadataList, prefix, templates, alive, pc, cur>>

shared == <<phase, packageMetadataList, prefix, templates>>

Slots == 1..MaxInFlight

Requests ==
    RootRequests \cup MetadataRequests \cup PackagesRequests
        \cup FindPackagesByIdRequests \cup DownloadRequests

NoExchange == [req |-> Request("none", NoArgs, NoArgs, AnyRoot),
               stage |-> "none", threw |-> FALSE, sent |-> << >>]

\* JavaScript runs one callback at a time, to completion
NoneRunning == \A s \in Slots : pc[s] # "running"

Init ==
    /\ phase = "loaded"
    /\ packageMetadataList \in ListsUpTo(PackageUniverse, MaxPkgs)
    /\ prefix = << >>
    /\ templates = NoTemplates
    /\ alive = TRUE
    /\ pc = [s \in Slots |-> "idle"]
    /\ cur = NoExchange

\* configureRoutes(app, p, packageMetadataList)
configureRoutes(p) ==
    /\ phase = "loaded"
    /\ prefix' = normalizePrefix(p)
    /\ packageMetadataList' =
           preprocessPackageMetadata(normalizePrefix(p), packageMetadataList)
    /\ templates' = LoadedTemplates
    /\ phase' = "serving"
    /\ UNCHANGED <<alive, pc, cur>>

\* a request reaches the server: the callback of its route is queued
Arrive(s) ==
    /\ phase = "serving"
    /\ alive
    /\ NoneRunning
    /\ pc[s] = "idle"
    /\ pc' = [pc EXCEPT ![s] = "arrived"]
    /\ UNCHANGED <<shared, alive, cur>>

\* Express calls the callback registered for the route with the request
Dispatch(s) ==
    /\ phase = "serving"
    /\ alive
    /\ NoneRunning
    /\ pc[s] = "arrived"
    /\ \E req \in Requests :
           cur' = [req |-> req, stage |-> "running", threw |-> FALSE,
                   sent |-> << >>]
    /\ pc' = [pc EXCEPT ![s] = "running"]
    /\ UNCHANGED <<shared, alive>>

\* the callback without its try/catch: the rejection of the async callback is
\* unhandled, no response is sent and the process ends
getUncaught(s, out) ==
    /\ alive
    /\ pc[s] = "running"
    /\ cur' = [cur EXCEPT !.stage = "done", !.threw = out.threw,
                          !.sent = out.sent]
    /\ pc' = [pc EXCEPT ![s] = IF out.threw THEN "running" ELSE "awaiting"]
    /\ alive' = ~out.threw

\* the callback `get` registers: try { await handler(req, res); res.end(); }
\* catch (error) { res.status(500).send('Exception!'); }, run up to the await
\* or through the catch; out is what the handler did
get(s, out) ==
    /\ alive
    /\ pc[s] = "running"
    /\ IF out.threw
       THEN /\ cur' = [cur EXCEPT !.stage = "done", !.threw = TRUE,
                           !.sent = out.sent
                               \o <<Response(500, "", <<"Exception!">>)>>]
            /\ pc' = [pc EXCEPT ![s] = "idle"]
       ELSE /\ cur' = [cur EXCEPT !.stage = "done", !.threw = FALSE,
                           !.sent = out.sent]
            /\ pc' = [pc EXCEPT ![s] = "awaiting"]
    /\ alive' = alive

Root(s) ==
    /\ pc[s] = "running"
    /\ cur.req.route = "root"
    /\ get(s, rootHandler(cur.req, packageMetadataList, templates))
    /\ UNCHANGED shared

Metadata(s) ==
    /\ pc[s] = "running"
    /\ cur.req.route = "metadata"
    /\ get(s, metadataHandler(cur.req, packageMetadataList, templates))
    /\ UNCHANGED shared

Packages(s) ==
    /\ pc[s] = "running"
    /\ cur.req.route = "Packages"
    /\ get(s, packagesHandler(cur.req, packageMetadataList, templates))
    /\ UNCHANGED shared

\* the route narrowing the shared array in place (splice) instead of filter
FindPackagesByIdInPlace(s) ==
    /\ pc[s] = "running"
    /\ cur.req.route = "FindPackagesById"
    /\ get(s, findPackagesByIdHandler(cur.req, packageMetadataList, templates))
    /\ packageMetadataList' =
           SelectSeq(packageMetadataList,
                     LAMBDA e : e.id = stripQuotes(Get(cur.req.query, "id")))
    /\ UNCHANGED <<phase, prefix, templates>>

FindPackagesById(s) ==
    /\ pc[s] = "running"
    /\ cur.req.route = "FindPackagesById"
    /\ get(s, findPackagesByIdHandler(cur.req, packageMetadataList, templates))
    /\ UNCHANGED shared

Download(s) ==
    /\ pc[s] = "running"
    /\ cur.req.route = "download"
    /\ get(s, downloadHandler(cur.req, packageMetadataList, templates))
    /\ UNCHANGED shared

\* after the await: res.end() on the response the handler has sent
Resume(s) ==
    /\ alive
    /\ NoneRunning
    /\ pc[s] = "awaiting"
    /\ pc' = [pc EXCEPT ![s] = "idle"]
    /\ UNCHANGED <<shared, alive, cur>>

\* the callback of slot s, whichever route its request is for
Callback(s) ==
    \/ Root(s)
    \/ Metadata(s)
    \/ Packages(s)
    \/ FindPackagesById(s)
    \/ Download(s)

Next ==
    \/ \E p \in PrefixInputs : configureRoutes(p)
    \/ \E s \in Slots : Arrive(s)
    \/ \E s \in Slots : Dispatch(s)
    \/ \E s \in Slots : Root(s)
    \/ \E s \in Slots : Metadata(s)
    \/ \E s \in Slots : Packages(s)
    \/ \E s \in Slots : FindPackagesById(s)
    \/ \E s \in Slots : Download(s)
    \/ \E s \in Slots : Resume(s)

\* requests in any interleaving, at most MaxInFlight at a time
Spec == Init /\ [][Next]_vars

\* every request has one of the five routes and get handles whatever its
\* handler does, so the callback of slot s can run exactly when the process
\* is alive and the slot is running
CallbackEnabled(s) == alive /\ pc[s] = "running"

\* a callback that has started runs to its end: weak fairness of Callback(s),
\* written with its enabling condition
CallbackRunsToCompletion(s) ==
    \/ []<>(~CallbackEnabled(s))
    \/ []<><<Callback(s)>>_vars

\* the event loop is a queue: a callback that is ready again and again is
\* run, and a callback that has started runs to its end
LiveSpec ==
    /\ Spec
    /\ \A s \in Slots :
          /\ SF_vars(Dispatch(s))
          /\ CallbackRunsToCompletion(s)
          /\ SF_vars(Resume(s))

\* normalization alone, over records with every dependency list up to MaxDeps
DepUniverse ==
    { [id |-> i] : i \in { <<"a">>, <<"a", "a">>, <<"b">> } }
        \cup { [id |-> i, version |-> v] :
                   i \in { <<"a">>, <<"a", "a">>, <<"b">> },
                   v \in { << >>, <<"1">> } }

InitNorm ==
    /\ phase = "loaded"
    /\ packageMetadataList \in
           { << [id |-> <<"a">>, version |-> <<"1">>] >> }
               \cup { << [id |-> <<"a">>, version |-> <<"1">>,
                          dependencies |-> d] >> :
                          d \in ListsUpTo(DepUniverse, MaxDeps) }
    /\ prefix = << >>
    /\ templates = NoTemplates
    /\ alive = TRUE
    /\ pc = [s \in Slots |-> "idle"]
    /\ cur = NoExchange

NextNorm == \E p \in PrefixInputs : configureRoutes(p)

NormSpec == InitNorm /\ [][NextNorm]_vars

\* ---------------------------------------------------- reading a response
Range(f) == { f[i] : i \in DOMAIN f }

Count(seq, x) == Cardinality({ i \in 1..Len(seq) : seq[i] = x })

\* the same elements with the same multiplicities
SameElements(a, b) ==
    /\ Len(a) = Len(b)
    /\ \A x \in Range(a) \cup Range(b) : Count(a, x) = Count(b, x)

\* sub is full with some elements left out, the order kept
IsSubsequence(sub, full) ==
    \E f \in [1..Len(sub) -> 1..Len(full)] :
        /\ \A k \in 1..Len(sub) : full[f[k]] = sub[k]
        /\ \A k \in 1..(Len(sub) - 1) : f[k] < f[k + 1]

\* the strings between each `open` and the `close` that follows it, in order
Between(body, open, close) ==
    LET opens == { i \in 1..Len(body) : body[i] = open }
        nth(k) == CHOOSE i \in opens :
                      Cardinality({ j \in opens : j < i }) = k - 1
        end(i) == CHOOSE j \in (i + 1)..Len(body) :
                      /\ body[j] = close
                      /\ \A m \in (i + 1)..(j - 1) : body[m] # close
    IN  [k \in 1..Cardinality(opens) |->
            SubSeq(body, nth(k) + 1, end(nth(k)) - 1)]

Titles(body) == Between(body, "    <title type=\"text\">", "</title>")

Versions(body) == Between(body, "      <d:Version>", "</d:Version>")

Sources(body) ==
    Between(body, "    <content type=\"application/zip\" src=\"", "\" />")

\* what identifies a record of PackageUniverse: its id and version
Key(entry) == <<entry.id, entry.version>>

\* the keys of the entries of a feed body, in the order of the body
EntryKeys(body) ==
    [k \in 1..Len(Titles(body)) |-> <<Titles(body)[k], Versions(body)[k]>>]

KeysOf(records) == [k \in 1..Len(records) |-> Key(records[k])]

Answered == cur.stage = "done"

\* one response was sent, with status 200 and the feed content type
SuccessFeed ==
    /\ Answered
    /\ Len(cur.sent) = 1
    /\ cur.sent[1].status = 200
    /\ cur.sent[1].type = ATOM_MIME_TYPE

HasFilter(f) ==
    /\ Answered
    /\ cur.req.route = "Packages"
    /\ "$filter" \in DOMAIN cur.req.query
    /\ cur.req.query["$filter"] = f

\* ------------------------------------------------------------------ claims
\* C1: a package query whose $filter is a substring filter with operand s
\* gets a success feed with exactly the records whose id, summary or
\* _flat_tags contains s, also when records lack summary or tags.
C1_SubstringFeed ==
    \A s \in Names \ { << >> } :
        HasFilter(SearchFilter(s)) =>
            /\ SuccessFeed
            /\ SameElements(
                   EntryKeys(cur.sent[1].body),
                   KeysOf(SelectSeq(packageMetadataList,
                       LAMBDA e : \/ Includes(e.id, s)
                                  \/ Includes(Get(e, "summary"), s)
                                  \/ Includes(e["_flat_tags"], s))))

\* C2 as stated: for every <id>, the filter "(tolower(Id) eq '<id>') and
\* IsLatestVersion" yields exactly <id> and a success feed with exactly the
\* records whose id is <id>.
C2_ExactIdAnyOperand ==
    \A id \in Names :
        HasFilter(ExactFilter(id)) =>
            /\ filterForOnePackage(ExactFilter(id)) = Captured(id)
            /\ SuccessFeed
            /\ SameElements(
                   EntryKeys(cur.sent[1].body),
                   KeysOf(SelectSeq(packageMetadataList, LAMBDA e : e.id = id)))

\* C2 amended: for every non-empty <id>, the filter "(tolower(Id) eq '<id>')
\* and IsLatestVersion" yields exactly <id> and a success feed with exactly
\* the records whose id is <id>.
C2_ExactId ==
    \A id \in Names \ { << >> } :
        HasFilter(ExactFilter(id)) =>
            /\ filterForOnePackage(ExactFilter(id)) = Captured(id)
            /\ SuccessFeed
            /\ SameElements(
                   EntryKeys(cur.sent[1].body),
                   KeysOf(SelectSeq(packageMetadataList, LAMBDA e : e.id = id)))

\* an exact-id query was answered from a list of two records, one has the id
C2_Witness ==
    \E id \in Names :
        /\ HasFilter(ExactFilter(id))
        /\ SuccessFeed
        /\ Len(EntryKeys(cur.sent[1].body)) = 1
        /\ Len(packageMetadataList) = 2

\* the filter of the request matches neither shape: it is absent, or neither
\* pattern yields a non-empty operand
Unrecognized ==
    /\ Answered
    /\ cur.req.route = "Packages"
    /\ \/ "$filter" \notin DOMAIN cur.req.query
       \/ /\ "$filter" \in DOMAIN cur.req.query
          /\ ~Found(filterForOnePackage(cur.req.query["$filter"]))
          /\ ~Found(filterForManyPackages(cur.req.query["$filter"]))

\* C3: a package query whose filter matches neither shape (the empty string,
\* arbitrary text, an absent $filter, a shape with an empty operand) gets the
\* error feed with status 400 and nothing else.
C3_UnrecognizedIs400 ==
    Unrecognized =>
        cur.sent = <<Response(400, ATOM_MIME_TYPE, templates.errorAtom)>>

C5_FindById ==
    (Answered /\ cur.req.route = "FindPackagesById") =>
        /\ SuccessFeed
        /\ "id" \notin DOMAIN cur.req.query =>
               EntryKeys(cur.sent[1].body) = << >>
        /\ "id" \in DOMAIN cur.req.query =>
               LET id == cur.req.query["id"]
                   wrapped == /\ Len(id) >= 2
                              /\ id[1] = "'"
                              /\ id[Len(id)] = "'"
                   bare == \A k \in 1..Len(id) : id[k] # "'"
                   name == SubSeq(id, 2, Len(id) - 1)
               IN  /\ wrapped =>
                          SameElements(
                              EntryKeys(cur.sent[1].body),
                              KeysOf(SelectSeq(packageMetadataList,
                                               LAMBDA e : e.id = name)))
                   /\ bare =>
                          SameElements(
                              EntryKeys(cur.sent[1].body),
                              KeysOf(SelectSeq(packageMetadataList,
                                               LAMBDA e : e.id = id)))

\* a quoted id was answered with the one record of two that has the name
C5_Witness ==
    /\ cur.req.route = "FindPackagesById"
    /\ "id" \in DOMAIN cur.req.query
    /\ cur.req.query["id"] = <<"'", "a", "a", "'">>
    /\ Len(packageMetadataList) = 2
    /\ SuccessFeed
    /\ Len(EntryKeys(cur.sent[1].body)) = 1

\* C6: no feed response has the placeholder {EXPRESS_URL_ROOT} left in its
\* body, and the download URL of every locally hosted entry is the request's
\* scheme and host followed by <prefix>download/<id>.
C6_NoPlaceholderLeft ==
    (cur.req.route \in {"Packages", "FindPackagesById"} /\ SuccessFeed) =>
        LET body == cur.sent[1].body
        IN  /\ EXPRESS_URL_ROOT \notin Range(body)
            /\ \A k \in 1..Len(EntryKeys(body)) :
                  (\E i \in 1..Len(packageMetadataList) :
                      /\ Key(packageMetadataList[i]) = EntryKeys(body)[k]
                      /\ "nupkgData" \in DOMAIN packageMetadataList[i])
                  => Sources(body)[k] =
                         urlRoot(cur.req) \o prefix \o <<"download/">>
                             \o Titles(body)[k]

\* what the handler of the route of req sends from the shared state as it is
Expected(req) ==
    IF req.route = "root" THEN rootHandler(req, packageMetadataList, templates)
    ELSE IF req.route = "metadata"
    THEN metadataHandler(req, packageMetadataList, templates)
    ELSE IF req.route = "Packages"
    THEN packagesHandler(req, packageMetadataList, templates)
    ELSE IF req.route = "FindPackagesById"
    THEN findPackagesByIdHandler(req, packageMetadataList, templates)
    ELSE downloadHandler(req, packageMetadataList, templates)

\* C7: a request whose handler throws is answered with the generic status 500
\* and nothing else; the process keeps running; every request that arrived is
\* answered, with exactly one response; a request whose handler does not
\* throw is answered with what its handler sends, whatever failed before.
C7_ErrorContainment ==
    /\ [](alive)
    /\ [](Answered =>
            /\ Len(cur.sent) = 1
            /\ cur.threw => cur.sent[1] = Response(500, "", <<"Exception!">>)
            /\ ~cur.threw => cur.sent = Expected(cur.req).sent)
    /\ \A s \in Slots : (pc[s] = "arrived") ~> (pc[s] \in {"awaiting", "idle"})

\* a request was answered 500 while another request, already answered by its
\* handler, is still in flight
C7_Witness ==
    /\ Answered
    /\ cur.threw
    /\ cur.sent = <<Response(500, "", <<"Exception!">>)>>
    /\ \E s \in Slots : pc[s] = "awaiting"
    /\ \E s \in Slots : pc[s] = "arrived"

\* C8: once configureRoutes has completed, no step changes the package
\* metadata list, a record in it, the prefix or a template.
C8_SharedStateFrozen ==
    [][phase = "serving" => UNCHANGED <<packageMetadataList, prefix, templates>>]_vars

\* a feed was rendered from a non-empty list while another request waits
C8_Witness ==
    /\ phase = "serving"
    /\ cur.req.route = "FindPackagesById"
    /\ SuccessFeed
    /\ Len(EntryKeys(cur.sent[1].body)) = 1
    /\ Len(packageMetadataList) = 2
    /\ \E s \in Slots : pc[s] = "arrived"

\* the records the request of cur selects, by position in the list
Selected ==
    IF cur.req.route = "FindPackagesById"
    THEN { i \in 1..Len(packageMetadataList) :
             packageMetadataList[i].id = stripQuotes(Get(cur.req.query, "id")) }
    ELSE LET filter == cur.req.query["$filter"]
         IN  IF Found(filterForOnePackage(filter))
             THEN { i \in 1..Len(packageMetadataList) :
                      packageMetadataList[i].id
                          = filterForOnePackage(filter).value }
             ELSE { i \in 1..Len(packageMetadataList) :
                      searchMatches(packageMetadataList[i],
                                    filterForManyPackages(filter).value) }

\* C9: in every feed of a package query or of FindPackagesById the entries
\* are in the order their records have in the loaded list, one entry for each
\* selected record.
C9_LoadOrder ==
    (cur.req.route \in {"Packages", "FindPackagesById"} /\ SuccessFeed) =>
        /\ IsSubsequence(EntryKeys(cur.sent[1].body), KeysOf(packageMetadataList))
        /\ Len(EntryKeys(cur.sent[1].body)) = Cardinality(Selected)

\* a feed of two entries whose load order is not the order of their ids
C9_Witness ==
    /\ cur.req.route = "Packages"
    /\ SuccessFeed
    /\ EntryKeys(cur.sent[1].body)
           = << <<<<"a", "a">>, <<"2">>>>, <<<<"a">>, <<"1">>>> >>

\* the flattened form of a dependency list, built from its last element
RECURSIVE FlatFormOf(_)
FlatFormOf(deps) ==
    IF Len(deps) = 0 THEN << >>
    ELSE LET last == deps[Len(deps)]
             segment == last.id \o <<":">>
                            \o (IF "version" \in DOMAIN last THEN last.version
                                ELSE << >>)
                            \o <<":">>
         IN  IF Len(deps) = 1 THEN segment
             ELSE FlatFormOf(SubSeq(deps, 1, Len(deps) - 1)) \o <<"|">> \o segment

\* C10: normalization sets _flat_deps to the segments "<id>:<version>:", one
\* for each dependency in document order, the version empty when absent,
\* joined by "|" with no leading or trailing "|"; to the empty string for a
\* record without dependencies.
C10_FlatDeps ==
    phase = "serving" =>
        \A i \in 1..Len(packageMetadataList) :
            LET entry == packageMetadataList[i]
                flat == entry["_flat_deps"]
                deps == IF "dependencies" \in DOMAIN entry
                        THEN entry.dependencies ELSE << >>
            IN  /\ flat = FlatFormOf(deps)
                /\ Count(flat, "|") = (IF Len(deps) = 0 THEN 0 ELSE Len(deps) - 1)
                /\ Count(flat, ":") = 2 * Len(deps)
                /\ Len(deps) > 0 => flat[1] # "|" /\ flat[Len(flat)] = ":"

\* a record with two dependencies, the first without a version, normalized
C10_Witness ==
    /\ phase = "serving"
    /\ \E i \in 1..Len(packageMetadataList) :
          /\ "dependencies" \in DOMAIN packageMetadataList[i]
          /\ Len(packageMetadataList[i].dependencies) = 2
          /\ "version" \notin DOMAIN packageMetadataList[i].dependencies[1]
          /\ Count(packageMetadataList[i]["_flat_deps"], "|") = 1

====
